---- MODULE Spec2Model ----
(***************************************************************************)
(* Model of the Nicole admin dashboard (src/main.py).                      *)
(*                                                                         *)
(* Two specifications share this module:                                   *)
(*   Spec      the Users page / sidebar handlers of one operator session   *)
(*             over the external contacts table and the process-wide read  *)
(*             cache (get_all_contacts, update_contact, delete_contact,    *)
(*             the Save and Delete button handlers, the cache buttons).    *)
(*   SpecPure  the pure computations (get_stats, the Users page filters)   *)
(*             applied to inputs drawn from bounded sets.                  *)
(*                                                                         *)
(* One action of Spec is one Streamlit script run: the script starts with  *)
(* df = get_all_contacts(), renders the rows of df, and runs the handler   *)
(* of the button that was clicked.  st.rerun() at the end of a handler     *)
(* starts the next script run at once, so its get_all_contacts() is part   *)
(* of the same action.  Script runs are taken one at a time.               *)
(*                                                                         *)
(* The table is an external service: a store call either returns or fails  *)
(* by raising (execute() raises on an error response), ids are assigned in *)
(* creation order and never reused, and other writers (the registration    *)
(* flow, other sessions) change the table without touching this process's  *)
(* cache.                                                                  *)
(***************************************************************************)
EXTENDS Integers, Sequences, FiniteSets, TLC

VARIABLES
    store,          \* the external contacts table: id -> row, NotYet or Deleted
    cache,          \* st.cache_data entry of get_all_contacts
    confirm,        \* st.session_state['confirm_delete_<id>'], absent = FALSE
    result,         \* what the last script run did (op, outcome, store calls)
    externalWrites, \* number of writes made by other writers of the table
    data,           \* SpecPure: response.data handed to pd.DataFrame
    status_filter,  \* SpecPure: value of the status multiselect
    day_filter,     \* SpecPure: value of the day multiselect
    search,         \* SpecPure: value of the search text input
    astypeKeepsNa,  \* SpecPure: does Series.astype(str) keep nulls (pandas >= 3)
    out             \* SpecPure: what the computation returned

mvars == <<store, cache, confirm, result, externalWrites>>
pvars == <<data, status_filter, day_filter, search, astypeKeepsNa, out>>
vars  == <<store, cache, confirm, result, externalWrites,
           data, status_filter, day_filter, search, astypeKeepsNa, out>>

----------------------------------------------------------------------------
(* Bounds *)

NumIds == 2
Ids    == 1..NumIds
MaxExternalWrites == 1

(* Program constants *)

StatusOptions == {"lead_new", "challenge_running", "challenge_completed", "paid_member"}
MinDay == 0
MaxDay == 30

(* What the operator tries to enter in the two widgets of a row. *)
StatusInputs == {"paid_member", "bogus_status"}
DayInputs    == {0, 30, 31}

(* Values another writer of the table (registration flow, bot) stores. *)
ExternalStatuses == {"lead_new"}
ExternalDays     == {0}

----------------------------------------------------------------------------
(* The external table *)

NotYet  == [kind |-> "not_yet"]
Deleted == [kind |-> "deleted"]
Row(s, d) == [kind |-> "row", status |-> s, current_day |-> d]
IsRow(v)  == v.kind = "row"

(* response.data of select('*').order('created_at', desc=True): ids are   *)
(* assigned in creation order, so newest-first is id-descending.           *)
RECURSIVE SelectAll(_, _)
SelectAll(st, n) ==
    IF n = 0 THEN <<>>
    ELSE (IF IsRow(st[n])
            THEN <<[id |-> n, status |-> st[n].status,
                    current_day |-> st[n].current_day]>>
            ELSE <<>>) \o SelectAll(st, n - 1)

(* pd.DataFrame(response.data): the columns are the keys of the records;  *)
(* an empty list gives a frame with no columns at all.                     *)
DataFrame(d) ==
    [columns |-> IF d = <<>> THEN {} ELSE DOMAIN d[1], rows |-> d]

DfIds(df)      == {df.rows[k].id : k \in 1..Len(df.rows)}
HasRow(df, id) == id \in DfIds(df)
DfRow(df, id)  == df.rows[CHOOSE k \in 1..Len(df.rows) : df.rows[k].id = id]

ListCall                    == [fn |-> "list"]
UpdateCall(id, updates)     == [fn |-> "update", id |-> id, updates |-> updates]
DeleteCall(id)              == [fn |-> "delete", id |-> id]

(* The cache entry *)
NoCache    == [valid |-> FALSE, df |-> DataFrame(<<>>)]
Cached(df) == [valid |-> TRUE, df |-> df]

(* @st.cache_data(ttl=60) def get_all_contacts(): a hit returns the stored *)
(* frame, a miss queries the table and stores the frame.                   *)
get_all_contacts(c, st) ==
    IF c.valid
      THEN [df |-> c.df, cache |-> c, calls |-> <<>>]
      ELSE LET df == DataFrame(SelectAll(st, NumIds))
           IN  [df |-> df, cache |-> Cached(df), calls |-> <<ListCall>>]

(* update(updates).eq('id', contact_id).execute(): one statement; it sets *)
(* both fields of the matching row, matches nothing when the row is gone,  *)
(* and raises when the call fails.                                         *)
update_contact_partial(st, contact_id, updates, fails) ==
    [store  |-> IF IsRow(st[contact_id])
                  THEN [st EXCEPT ![contact_id] =
                          Row(updates.status,
                              IF fails THEN st[contact_id].current_day
                                       ELSE updates.current_day)]
                  ELSE st,
     raised |-> fails]

update_contact(st, contact_id, updates, fails) ==
    [store  |-> IF ~fails /\ IsRow(st[contact_id])
                  THEN [st EXCEPT ![contact_id] =
                          Row(updates.status, updates.current_day)]
                  ELSE st,
     raised |-> fails]

(* delete().eq('id', contact_id).execute() *)
delete_contact(st, contact_id, fails) ==
    [store  |-> IF ~fails /\ IsRow(st[contact_id])
                  THEN [st EXCEPT ![contact_id] = Deleted]
                  ELSE st,
     raised |-> fails]

----------------------------------------------------------------------------
(* Session state and widgets *)

(* st.session_state.get(f'confirm_delete_{row["id"]}') *)
IsConfirmedAny(id) == \E j \in Ids : confirm[j]

IsConfirmed(id) == confirm[id]

(* st.session_state[f'confirm_delete_{row["id"]}'] = True *)
SetConfirmOnly(id) == [j \in Ids |-> j = id]

SetConfirm(id) == [confirm EXCEPT ![id] = TRUE]

(* st.selectbox(options=[the four statuses]) yields one of its options.    *)
selectbox_any(s) == TRUE

selectbox(s) == s \in StatusOptions

(* st.number_input(min_value=0, max_value=30) yields a value in range.     *)
number_input(d) == MinDay <= d /\ d <= MaxDay

(* st.cache_data.clear() in the Save handler / in the Delete handler.      *)
cache_keep_save(c) == c

cache_clear_save(c) == NoCache

cache_keep_delete(c) == c

cache_clear_delete(c) == NoCache

(* What a script run did: the button that fired, what the operator had   *)
(* entered, the outcome shown, the store calls of the page's own read and  *)
(* the store calls of the handler together with the rerun it triggers.     *)
NoReq == [status |-> "", current_day |-> 0]

Result(op, id, req, outcome, read, calls) ==
    [op |-> op, id |-> id, req |-> req, outcome |-> outcome,
     read |-> read, calls |-> calls]

----------------------------------------------------------------------------
(* Script runs of the operator's session *)

(* A run in which no Save/Delete button fired (page view, other widget).   *)
Render ==
    LET r == get_all_contacts(cache, store) IN
    /\ cache'  = r.cache
    /\ result' = Result("render", 0, NoReq, "ok", r.calls, <<>>)
    /\ UNCHANGED <<store, confirm, externalWrites>>

(* The Save button of row id, with s and d what the operator tries to put  *)
(* into the status and day widgets of that row.  The widgets are the only  *)
(* validation there is: a value they do not accept never becomes           *)
(* new_status / new_day, so the request ends there and update_contact is   *)
(* not called; update_contact itself checks nothing.                       *)
RequestUpdate(id, s, d, fails) ==
    LET r       == get_all_contacts(cache, store)
        updates == [status |-> s, current_day |-> d]
        w       == update_contact(store, id, updates, fails)
        r2      == get_all_contacts(cache_clear_save(r.cache), w.store)
    IN
    /\ HasRow(r.df, id)
    /\ UNCHANGED <<confirm, externalWrites>>
    /\ IF ~(selectbox(s) /\ number_input(d))
         THEN /\ result' = Result("requestUpdate", id, updates,
                                  "ValidationError", r.calls, <<>>)
              /\ cache'  = r.cache
              /\ UNCHANGED store
         ELSE IF w.raised
         THEN /\ result' = Result("requestUpdate", id, updates, "StoreError",
                                  r.calls, <<UpdateCall(id, updates)>>)
              /\ cache'  = r.cache
              /\ store'  = w.store
         ELSE /\ result' = Result("requestUpdate", id, updates, "ok", r.calls,
                                  <<UpdateCall(id, updates)>> \o r2.calls)
              /\ cache'  = r2.cache
              /\ store'  = w.store

(* The Delete button of row id. *)
RequestDelete(id, fails) ==
    LET r  == get_all_contacts(cache, store)
        w  == delete_contact(store, id, fails)
        r2 == get_all_contacts(cache_clear_delete(r.cache), w.store)
    IN
    /\ HasRow(r.df, id)
    /\ UNCHANGED externalWrites
    /\ IF IsConfirmed(id)
         THEN /\ UNCHANGED confirm
              /\ IF w.raised
                   THEN /\ result' = Result("requestDelete", id, NoReq, "StoreError",
                                            r.calls, <<DeleteCall(id)>>)
                        /\ cache'  = r.cache
                        /\ store'  = w.store
                   ELSE /\ result' = Result("requestDelete", id, NoReq, "deleted",
                                            r.calls, <<DeleteCall(id)>> \o r2.calls)
                        /\ cache'  = r2.cache
                        /\ store'  = w.store
         ELSE /\ confirm' = SetConfirm(id)
              /\ result'  = Result("requestDelete", id, NoReq,
                                   "needsConfirmation", r.calls, <<>>)
              /\ cache'   = r.cache
              /\ UNCHANGED store

(* Sidebar "Refresh Data": st.cache_data.clear(); st.rerun().  The button *)
(* fires before the page body reads df; the rerun then reads.              *)
RefreshData ==
    LET r2 == get_all_contacts(NoCache, store) IN
    /\ cache'  = r2.cache
    /\ result' = Result("refresh", 0, NoReq, "ok", <<>>, r2.calls)
    /\ UNCHANGED <<store, confirm, externalWrites>>

(* Settings "Clear Cache": the page has read df, then st.cache_data.clear() *)
(* without a rerun.                                                         *)
ClearCache ==
    LET r == get_all_contacts(cache, store) IN
    /\ cache'  = NoCache
    /\ result' = Result("clearCache", 0, NoReq, "ok", r.calls, <<>>)
    /\ UNCHANGED <<store, confirm, externalWrites>>

(* Environment *)

(* ttl=60: the entry expires. *)
Expire ==
    /\ cache.valid
    /\ cache'  = NoCache
    /\ result' = Result("environment", 0, NoReq, "ok", <<>>, <<>>)
    /\ UNCHANGED <<store, confirm, externalWrites>>

(* The external registration flow creates the next contact. *)
Register(id) ==
    /\ store[id] = NotYet
    /\ \A j \in Ids : j < id => store[j] # NotYet
    /\ store'  = [store EXCEPT ![id] = Row("lead_new", 0)]
    /\ result' = Result("environment", 0, NoReq, "ok", <<>>, <<>>)
    /\ UNCHANGED <<cache, confirm, externalWrites>>

(* Another writer of the table changes a row. *)
ExternalUpdate(id, s, d) ==
    /\ externalWrites < MaxExternalWrites
    /\ IsRow(store[id])
    /\ store[id] # Row(s, d)
    /\ store'  = [store EXCEPT ![id] = Row(s, d)]
    /\ externalWrites' = externalWrites + 1
    /\ result' = Result("environment", 0, NoReq, "ok", <<>>, <<>>)
    /\ UNCHANGED <<cache, confirm>>

MainIdle ==
    /\ store   = [i \in Ids |-> NotYet]
    /\ cache   = NoCache
    /\ confirm = [i \in Ids |-> FALSE]
    /\ result  = Result("start", 0, NoReq, "ok", <<>>, <<>>)
    /\ externalWrites = 0

PureIdle ==
    /\ data = <<>>
    /\ status_filter = {}
    /\ day_filter = {}
    /\ search = <<>>
    /\ astypeKeepsNa = FALSE
    /\ out = [kind |-> "none"]

Init ==
    /\ MainIdle
    /\ PureIdle

Next ==
    \/ Render /\ UNCHANGED pvars
    \/ \E id \in Ids, s \in StatusInputs, d \in DayInputs, fails \in BOOLEAN :
           RequestUpdate(id, s, d, fails) /\ UNCHANGED pvars
    \/ \E id \in Ids, fails \in BOOLEAN :
           RequestDelete(id, fails) /\ UNCHANGED pvars
    \/ RefreshData /\ UNCHANGED pvars
    \/ ClearCache /\ UNCHANGED pvars
    \/ Expire /\ UNCHANGED pvars
    \/ \E id \in Ids : Register(id) /\ UNCHANGED pvars
    \/ \E id \in Ids, s \in ExternalStatuses, d \in ExternalDays :
           ExternalUpdate(id, s, d) /\ UNCHANGED pvars

Spec == Init /\ [][Next]_vars

----------------------------------------------------------------------------
(* The pure computations: get_stats and the Users page filters (SpecPure)  *)

(* Bounds *)
MaxRows     == 2
MaxQueryLen == 2

(* A nullable column value: <<>> is null (None / NaN), <<s>> holds s.      *)
(* A string is a sequence of one-character strings.                        *)
Null    == <<>>
Some(s) == <<s>>

SampleContacts ==
    { [id |-> 1, first_name |-> Some(<<"A", "l">>), email |-> Some(<<"a", ".", "l">>),
       phone |-> Some(<<"1", "2">>), status |-> "paid_member", current_day |-> 8],
      [id |-> 2, first_name |-> Some(<<"E", "a">>), email |-> Null,
       phone |-> Null, status |-> "lead_new", current_day |-> 0],
      [id |-> 3, first_name |-> Null, email |-> Some(<<"l", ".", "e">>),
       phone |-> Some(<<"2", "1">>), status |-> "challenge_running", current_day |-> 8],
      [id |-> 4, first_name |-> Some(<<"L", "e">>), email |-> Some(<<"l", "e">>),
       phone |-> Null, status |-> "challenge_completed", current_day |-> 30] }

QueryChars == {"a", "N", "."}

RECURSIVE SeqsUpTo(_, _)
SeqsUpTo(S, n) ==
    IF n = 0 THEN {<<>>}
    ELSE LET shorter == SeqsUpTo(S, n - 1)
         IN  shorter \cup {Append(q, c) : q \in shorter, c \in S}

Distinct(rows) ==
    \A i, j \in 1..Len(rows) : i # j => rows[i].id # rows[j].id

Collections == {rows \in SeqsUpTo(SampleContacts, MaxRows) : Distinct(rows)}
Queries     == SeqsUpTo(QueryChars, MaxQueryLen)

(* df[mask]: the rows of the frame whose index is in the mask, in order.   *)
RECURSIVE Where(_, _, _)
Where(rows, mask, k) ==
    IF k > Len(rows) THEN <<>>
    ELSE (IF k \in mask THEN <<rows[k]>> ELSE <<>>) \o Where(rows, mask, k + 1)

(* len(df[df['status'] == value]) *)
CountStatus(df, value) ==
    Cardinality({k \in 1..Len(df.rows) : df.rows[k].status = value})

(* get_stats(df).  df['status'] raises KeyError on a frame without that    *)
(* column (line 136 comes before the column test of line 138).  revenue is *)
(* kept in cents (paid_users * 9.99), conversion_rate as the fraction      *)
(* num/den of paid_users / completed_challenges * 100.                     *)
get_stats(df) ==
    IF "status" \notin df.columns
      THEN [kind |-> "KeyError"]
      ELSE LET total_users          == Len(df.rows)
               active_challenges    == CountStatus(df, "challenge_running")
               completed_challenges == CountStatus(df, "challenge_completed")
               paid_users           == CountStatus(df, "paid_member")
           IN  [kind |-> "stats",
                total_users          |-> total_users,
                active_challenges    |-> active_challenges,
                completed_challenges |-> completed_challenges,
                paid_users           |-> paid_users,
                revenue              |-> paid_users * 999,
                conversion_rate      |->
                    IF completed_challenges > 0
                      THEN [num |-> paid_users * 100, den |-> completed_challenges]
                      ELSE [num |-> 0, den |-> 1]]

(* str.lower over the letters the samples and queries use (case=False).    *)
Lower(c) ==
    CASE c = "A" -> "a"
      [] c = "E" -> "e"
      [] c = "L" -> "l"
      [] c = "N" -> "n"
      [] c = "O" -> "o"
      [] OTHER   -> c

(* One pattern character of re with IGNORECASE: '.' matches any character, *)
(* the other characters of QueryChars match themselves in either case.     *)
re_char(p, c) == p = "." \/ Lower(p) = Lower(c)

(* re.search(pat, s, re.IGNORECASE) for a pattern over QueryChars.         *)
re_search(pat, s) ==
    \E start \in 0..(Len(s) - Len(pat)) :
        \A k \in 1..Len(pat) : re_char(pat[k], s[start + k])

(* Series.str.contains(pat, case=False, na=False) on one value: the        *)
(* pattern is a regular expression (regex=True is the default), a null     *)
(* value gives na, that is False.                                          *)
str_contains(v, pat) == v # Null /\ re_search(pat, v[1])

(* Series.astype(str) on one value: str(None) is 'None' (pandas < 3); the  *)
(* string dtype of pandas >= 3 keeps the null.                             *)
astype_str(v, keepsNa) ==
    IF v = Null /\ ~keepsNa THEN Some(<<"N", "o", "n", "e">>) ELSE v

(* Lines 367-373: the search mask. *)
search_mask(rows, q, keepsNa) ==
    {k \in 1..Len(rows) :
        \/ str_contains(rows[k].first_name, q)
        \/ str_contains(rows[k].email, q)
        \/ str_contains(astype_str(rows[k].phone, keepsNa), q)}

(* Lines 358-373: filtered_df from df and the three filter widgets.        *)
apply_filters(df, statusF, dayF, q, keepsNa) ==
    LET byStatus ==
            IF statusF # {} /\ "status" \in df.columns
              THEN Where(df.rows, {k \in 1..Len(df.rows) : df.rows[k].status \in statusF}, 1)
              ELSE df.rows
        byDay ==
            IF dayF # {} /\ "current_day" \in df.columns
              THEN Where(byStatus, {k \in 1..Len(byStatus) : byStatus[k].current_day \in dayF}, 1)
              ELSE byStatus
    IN  IF q = <<>>
          THEN [kind |-> "frame", rows |-> byDay]
        ELSE IF ~({"first_name", "email", "phone"} \subseteq df.columns)
          THEN [kind |-> "KeyError"]
        ELSE [kind |-> "frame", rows |-> Where(byDay, search_mask(byDay, q, keepsNa), 1)]

(* options of the two multiselects: the values present in df (lines 344,   *)
(* 351); the operator selects any subset.                                  *)
StatusesOf(rows) == {rows[k].status : k \in 1..Len(rows)}
DaysOf(rows)     == {rows[k].current_day : k \in 1..Len(rows)}

PureInit ==
    /\ MainIdle
    /\ data \in Collections
    /\ status_filter \in SUBSET StatusesOf(data)
    /\ day_filter \in SUBSET DaysOf(data)
    /\ search \in Queries
    /\ astypeKeepsNa \in BOOLEAN
    /\ out = [kind |-> "none"]

(* stats = get_stats(df) on the frame built from response.data *)
ApplyGetStats ==
    /\ out.kind = "none"
    /\ out' = [op |-> "get_stats", kind |-> "done", value |-> get_stats(DataFrame(data))]
    /\ UNCHANGED <<data, status_filter, day_filter, search, astypeKeepsNa>>
    /\ UNCHANGED mvars

(* The Users page filters; the page applies them when df is not empty      *)
(* (line 335).                                                             *)
ApplyFilters ==
    /\ out.kind = "none"
    /\ data # <<>>
    /\ out' = [op |-> "filter", kind |-> "done",
               value |-> apply_filters(DataFrame(data), status_filter,
                                       day_filter, search, astypeKeepsNa)]
    /\ UNCHANGED <<data, status_filter, day_filter, search, astypeKeepsNa>>
    /\ UNCHANGED mvars

PureNext == ApplyGetStats \/ ApplyFilters

SpecPure == PureInit /\ [][PureNext]_vars

----------------------------------------------------------------------------
(* Properties of the mutation coordinator (Spec) *)

IssuesDelete(res, i) ==
    \E k \in 1..Len(res.calls) : res.calls[k].fn = "delete" /\ res.calls[k].id = i

IssuesUpdate(res) ==
    \E k \in 1..Len(res.calls) : res.calls[k].fn = "update"

ValidRequest(req) ==
    /\ req.status \in StatusOptions
    /\ req.current_day \in MinDay..MaxDay

Listing(st) == Cached(DataFrame(SelectAll(st, NumIds)))

(* C1: the store's delete for an id is issued only by a delete request for *)
(* that same id made while an earlier delete request for that id is        *)
(* pending; a request for an id that is not pending deletes nothing, only  *)
(* records the intent for that id and reports needsConfirmation; the       *)
(* intent of an id is recorded only by a delete request for that id.       *)
C1_DeleteOnlyWhenConfirmed ==
    [][ /\ \A i \in Ids :
              IssuesDelete(result', i) =>
                  /\ result'.op = "requestDelete"
                  /\ result'.id = i
                  /\ confirm[i]
        /\ \A i \in Ids :
              (confirm'[i] /\ ~confirm[i]) =>
                  /\ result'.op = "requestDelete"
                  /\ result'.id = i
        /\ (result'.op = "requestDelete" /\ ~confirm[result'.id]) =>
                  /\ result'.outcome = "needsConfirmation"
                  /\ result'.calls = <<>>
                  /\ store' = store
                  /\ confirm'[result'.id]
      ]_vars

(* requestDelete(1) then requestDelete(2): both still in the table. *)
C1_Witness ==
    /\ result.op = "requestDelete"
    /\ result.id = 2
    /\ result.outcome = "needsConfirmation"
    /\ confirm[1]
    /\ IsRow(store[1])
    /\ IsRow(store[2])

(* C2: once the second delete request for an id has returned deleted, the  *)
(* row is gone from the table and no read of the collection through the    *)
(* cache contains that id any more.                                        *)
C2_DeletedNeverListed ==
    /\ (result.op = "requestDelete" /\ result.outcome = "deleted") =>
           /\ store[result.id] = Deleted
           /\ cache.valid
           /\ ~HasRow(cache.df, result.id)
    /\ \A i \in Ids :
           store[i] = Deleted => ~HasRow(get_all_contacts(cache, store).df, i)

C2_Witness ==
    /\ result.op = "requestDelete"
    /\ result.outcome = "deleted"
    /\ store[result.id] = Deleted
    /\ \E j \in Ids : HasRow(cache.df, j)

(* C3 as claimed: at most one id is pending confirmation at any time.      *)
C3_AtMostOnePending ==
    Cardinality({i \in Ids : confirm[i] /\ IsRow(store[i])}) <= 1

(* C3 as amended: the intent is kept per id; a delete request touches the  *)
(* intent of its own id only, so a request for another id neither confirms *)
(* nor cancels a pending one, and a request for an id whose intent is      *)
(* recorded issues the store's delete for it whatever was requested for    *)
(* other ids in between.                                                   *)
C3_PendingPerId ==
    [][ result'.op = "requestDelete" =>
          /\ \A j \in Ids \ {result'.id} : confirm'[j] = confirm[j]
          /\ confirm'[result'.id]
          /\ confirm[result'.id] =>
                 /\ IssuesDelete(result', result'.id)
                 /\ result'.outcome \in {"deleted", "StoreError"}
      ]_vars

(* request(A), request(B), request(A): A is deleted while B is pending.    *)
C3_Witness ==
    /\ result.op = "requestDelete"
    /\ result.outcome = "deleted"
    /\ \E j \in Ids \ {result.id} : confirm[j] /\ IsRow(store[j])

(* C4: when a delete request performs the delete, the intent recorded for  *)
(* that id is cleared.                                                     *)
C4_IntentClearedOnDelete ==
    (result.op = "requestDelete" /\ result.outcome = "deleted") =>
        ~confirm[result.id]

C6_FailureKeepsCache ==
    [][ /\ result'.outcome = "StoreError" =>
              /\ result'.op \in {"requestUpdate", "requestDelete"}
              /\ store' = store
              /\ cache' = get_all_contacts(cache, store).cache
              /\ cache'.valid
              /\ Len(result'.calls) = 1
        /\ (result'.op \in {"requestUpdate", "requestDelete"}
              /\ Len(result'.calls) > 1) =>
              result'.outcome \in {"ok", "deleted"}
      ]_vars

C6_Witness ==
    /\ result.op = "requestUpdate"
    /\ result.outcome = "StoreError"
    /\ IsRow(store[result.id])
    /\ store[result.id].status # result.req.status

(* C7: a successful update issues exactly one write keyed by the contact   *)
(* id, then the whole cached collection is dropped and re-fetched from the *)
(* table, so the cache shows the update; the cache entry only ever changes *)
(* to empty or to a full listing of the table, never to a patched frame.   *)
C7_UpdateThenRefetch ==
    [][ /\ (result'.op = "requestUpdate" /\ result'.outcome = "ok") =>
              /\ result'.calls = <<UpdateCall(result'.id, result'.req), ListCall>>
              /\ IsRow(store[result'.id])
              /\ store' = [store EXCEPT ![result'.id] =
                              Row(result'.req.status, result'.req.current_day)]
              /\ cache' = Listing(store')
              /\ DfRow(cache'.df, result'.id).status = result'.req.status
              /\ DfRow(cache'.df, result'.id).current_day = result'.req.current_day
        /\ cache' # cache => (cache' = NoCache \/ cache' = Listing(store'))
      ]_vars

(* A Save made on a stale snapshot: another writer had changed the row.    *)
C7_Witness ==
    /\ result.op = "requestUpdate"
    /\ result.outcome = "ok"
    /\ result.read = <<>>
    /\ externalWrites > 0
    /\ cache = Listing(store)

(* The values the status and day widgets of row id show when the operator *)
(* has not touched them: index=...index(row['status']) and                 *)
(* value=int(row['current_day']), taken from the row of df, which is the   *)
(* cached snapshot.                                                        *)
widget_default(df, id) ==
    [status |-> DfRow(df, id).status, current_day |-> DfRow(df, id).current_day]

(* C11: a successful Save in which the operator changed only one of the    *)
(* two widgets (the other still shows the value of the snapshot) leaves    *)
(* the table's value of the other field as it was, also when another       *)
(* writer changed the row after the snapshot was fetched.                  *)
C11_UntouchedFieldKept ==
    [][ (result'.op = "requestUpdate" /\ result'.outcome = "ok") =>
          LET shown == widget_default(get_all_contacts(cache, store).df, result'.id)
              req   == result'.req
              id    == result'.id
          IN  /\ (req.status # shown.status /\ req.current_day = shown.current_day) =>
                     store'[id].current_day = store[id].current_day
              /\ (req.current_day # shown.current_day /\ req.status = shown.status) =>
                     store'[id].status = store[id].status
      ]_vars

----------------------------------------------------------------------------
(* Properties of the pure computations (SpecPure) *)

(* The filter as specified: status in S when S is non-empty, current_day   *)
(* in D when D is non-empty, and for a non-empty q the text q contained,   *)
(* ignoring case, in first_name, email or phone, a null field counting as  *)
(* the empty string.                                                       *)
TextOf(v) == IF v = Null THEN <<>> ELSE v[1]

ContainsText(s, q) ==
    \E start \in 0..(Len(s) - Len(q)) :
        \A k \in 1..Len(q) : Lower(q[k]) = Lower(s[start + k])

SpecifiedFilter(rows, S, D, q) ==
    Where(rows,
          {k \in 1..Len(rows) :
              /\ S # {} => rows[k].status \in S
              /\ D # {} => rows[k].current_day \in D
              /\ q # <<>> => \/ ContainsText(TextOf(rows[k].first_name), q)
                             \/ ContainsText(TextOf(rows[k].email), q)
                             \/ ContainsText(TextOf(rows[k].phone), q)},
          1)

(* C8: get_stats of the empty contact collection raises no error and       *)
(* returns total, active, completed, paid and conversion_rate all 0.       *)
C8_EmptyStatsAreZero ==
    (out.kind = "done" /\ out.op = "get_stats" /\ data = <<>>) =>
        /\ out.value.kind = "stats"
        /\ out.value.total_users = 0
        /\ out.value.active_challenges = 0
        /\ out.value.completed_challenges = 0
        /\ out.value.paid_users = 0
        /\ out.value.conversion_rate.num = 0

(* C9: the filter returns exactly the contacts of C, in C's order, that    *)
(* satisfy the specified predicate; with no restriction it returns C       *)
(* unchanged; filtering the result again returns the same result.          *)
C9_FilterIsSpecified ==
    (out.kind = "done" /\ out.op = "filter") =>
        /\ out.value.kind = "frame"
        /\ out.value.rows = SpecifiedFilter(data, status_filter, day_filter, search)
        /\ (status_filter = {} /\ day_filter = {} /\ search = <<>>) =>
               out.value.rows = data
        /\ apply_filters(DataFrame(out.value.rows), status_filter, day_filter,
                         search, astypeKeepsNa) = out.value

(* C10: with a non-empty query, a contact is matched only through a field  *)
(* that is not null: a null first_name, email or phone never matches.      *)
C10_NullFieldNeverMatches ==
    (out.kind = "done" /\ out.op = "filter" /\ search # <<>>) =>
        /\ out.value.kind = "frame"
        /\ \A k \in 1..Len(out.value.rows) :
               \/ str_contains(out.value.rows[k].first_name, search)
               \/ str_contains(out.value.rows[k].email, search)
               \/ str_contains(out.value.rows[k].phone, search)

====
